---- MODULE Spec2Model ----
(***************************************************************************)
(* A model of Loggy's Logger (src/loggy.hpp): the configuration state, the *)
(* submit pipeline with its two critical sections, the std::ofstream file  *)
(* sink and the size-bounded rotation, run by a small set of threads.      *)
(*                                                                         *)
(* A formatted line reaches a sink as two tokens, the text and the '\n',   *)
(* because the code writes them with two separate << operations.           *)
(***************************************************************************)
EXTENDS Integers, Sequences, FiniteSets, TLC

\* ---------------------------------------------------------------- constants
\* The rotation macros are #ifndef-guarded, so a build sets them with -D; the
\* model is the build with a budget of 2 bytes, 3 backups and a check every
\* 2nd write (a token of a line counts as one byte).
LOGGY_MAX_LOG_FILE_SIZE == 2
LOGGY_ROTATE_BACKUPS == 3
LOGGY_CHECK_INTERVAL == 2
LOGGY_MIN_LEVEL == 0

\* enum class LogLevel (ERR and FATAL behave as WARN does for every operation
\* modelled here, the inputs are drawn from DEBUG and WARN)
DEBUG == 0
WARN == 2
LevelInputs == {DEBUG, WARN}

\* ------------------------------------------------------------------- bounds
MaxCalls == 2      \* log calls of the logging thread under Spec
MaxOps == 2        \* configuration calls of the logging thread under Spec
SeqCalls == 10     \* log calls of the single thread under SpecSeq
SeqOps == 2        \* configuration calls of the single thread under SpecSeq
ConcCalls == 2     \* log calls of each thread under SpecConc
MaxDepth == 2      \* nesting of log calls (a handler that logs)
RotCalls == 8      \* log calls of the single thread under SpecRot
SnapCalls == 2     \* log calls of thread 1 under SpecSnap
SnapOps == 2       \* setter calls of thread 2 under SpecSnap
FileCalls == 2     \* log calls of each thread under SpecFile
FileOps == 1       \* setLogPath/shutdown calls of thread 2 under SpecFile
TryCalls == 2      \* log calls of each thread under SpecTry
AugCalls == 5      \* log calls of the single thread under SpecAug
ShutCalls == 4     \* log calls of the single thread under SpecShut
ShutOps == 3       \* shutdown/setLogPath calls of the single thread under SpecShut
OldCalls == 2      \* log calls of each thread under SpecOld
OldOps == 1        \* setCustomLogHandler calls of thread 1 under SpecOld
OrdCalls == 3      \* log calls of each thread under SpecOrd

Threads == {1, 2}
None == 0          \* no thread owns the mutex

\* Paths setLogPath is called with: two that can be opened and one that
\* cannot (a directory that cannot be created, no permission).
Paths == {"p1", "p2"}
BadPath == "bad"
PathInputs == Paths \cup {BadPath}
NoPath == ""       \* the default-constructed std::filesystem::path

NoHandler == 0     \* std::function that holds nothing (nullptr)
HandlerInputs == {NoHandler, 1}
DefaultTimeFormat == "%Y-%m-%d %H:%M:%S"
TimeFormatInputs == {DefaultTimeFormat, "%Y-%m-%d"}

\* The files a rotation can touch: the active file <<p, 0>> and <<p, i>> for
\* path.i; index N+1 is there so that a rotation that numbers past N shows.
BackupIdx == 1..(LOGGY_ROTATE_BACKUPS + 1)
FileNames == PathInputs \X (0..(LOGGY_ROTATE_BACKUPS + 1))
NoFile == [ex |-> FALSE, data |-> <<>>]

\* The steps of a rotation the operating system can fail: remove(path.i),
\* rename(path.i -> path.(i+1)) with i = 0 for the active file, and the
\* reopen. A rotation runs with a set of them failing.
FaultSteps ==
    ({"remove"} \X (1..LOGGY_ROTATE_BACKUPS))
        \cup ({"rename"} \X (0..(LOGGY_ROTATE_BACKUPS - 1)))
        \cup {<<"open", 0>>}
NoFaults == {}

VARIABLES
    m_logFile,          \* std::ofstream: [open, target, fail]
    m_logFilePath,
    m_mutex,            \* the thread that holds m_mutex, or None
    m_lineCount,
    m_runtimeMinLvl,
    m_consoleOutput,
    m_fileOutput,
    m_autoFlush,
    m_includeThreadId,
    m_timeFormat,
    m_customHandler,
    m_inHandler,        \* thread_local bool, one per thread
    fs,                 \* the file system: file name -> [ex, data]
    pending,            \* tokens of the open file still in the stream's buffer
    console,            \* what std::cout received
    cerr,               \* number of diagnostics written to std::cerr
    handled,            \* the handler's invocations, in order
    swallowed,          \* number of handler failures caught by submit()
    stack,              \* per thread: its active submit() frames
    callsLeft,          \* per thread: log calls it may still make
    opsLeft,            \* per thread: configuration calls it may still make
    ncalls,             \* per thread: log calls made (tags the messages)
    rotations,          \* number of rotations performed
    checkResult,        \* what the last file section's rotation check found
    lastCall            \* the last public operation entered: [t, level, op]

cfgVars == <<m_runtimeMinLvl, m_consoleOutput, m_fileOutput, m_autoFlush,
             m_includeThreadId, m_timeFormat, m_customHandler>>
fileVars == <<m_logFile, m_logFilePath, m_lineCount, fs, pending, cerr, rotations,
              checkResult>>
sinkVars == <<console, handled, swallowed>>
thrVars == <<stack, callsLeft, ncalls, lastCall, m_inHandler>>
vars == <<cfgVars, fileVars, sinkVars, thrVars, m_mutex, opsLeft>>

\* ---------------------------------------------------------------- formatting
\* formatLine: timestamp rendered with timeFormat, the level tag, the thread
\* id when asked for, then the message (the clock is not modelled: the
\* timestamp segment is named by its format).
formatLine(level, t, msg, includeThreadId, timeFormat) ==
    [ts |-> timeFormat, lvl |-> level,
     tid |-> IF includeThreadId THEN t ELSE None, msg |-> msg]

NoLine == [ts |-> "", lvl |-> 0, tid |-> None, msg |-> <<0, 0>>]
TextTok(line) == [nl |-> FALSE, line |-> line]
NLTok == [nl |-> TRUE, line |-> NoLine]

\* loggy_enabled: the compile-time filter
loggy_enabled(level) == level >= LOGGY_MIN_LEVEL

\* a log/logEx that lost its runtime filter
FilterNeverDrops(level, minLvl) == FALSE

\* the runtime filter of log/logEx: "if (level < m_runtimeMinLvl) return"
RuntimeFilterDrops(level, minLvl) == level < minLvl

\* ------------------------------------------------------------ std::ofstream
\* The file-related state as one value, so that openLogFile and
\* rotateIfNeeded are operators from state to state.
World ==
    [file |-> m_logFile, path |-> m_logFilePath, count |-> m_lineCount,
     fs |-> fs, pending |-> pending, cerr |-> cerr, rot |-> rotations,
     check |-> checkResult, faults |-> NoFaults]

SetWorld(w) ==
    /\ m_logFile' = w.file
    /\ m_logFilePath' = w.path
    /\ m_lineCount' = w.count
    /\ fs' = w.fs
    /\ pending' = w.pending
    /\ cerr' = w.cerr
    /\ rotations' = w.rot
    /\ checkResult' = w.check

ClosedFile == [open |-> FALSE, target |-> NoPath, fail |-> FALSE]

\* whether the operating system lets the path be opened for writing
Openable(path) == path \in Paths

\* basic_ofstream::open: fails (failbit, nothing else changes) when the
\* stream is already open or the file cannot be opened; on success clears
\* the error state and, without ios::app, truncates the file.
StreamOpen(w, truncate) ==
    IF w.file.open \/ ~Openable(w.path) \/ <<"open", 0>> \in w.faults
    THEN [w EXCEPT !.file.fail = TRUE]
    ELSE [w EXCEPT !.file = [open |-> TRUE, target |-> w.path, fail |-> FALSE],
                   !.fs[<<w.path, 0>>] =
                       [ex |-> TRUE,
                        data |-> IF truncate THEN <<>> ELSE w.fs[<<w.path, 0>>].data],
                   !.pending = 0]

\* basic_ofstream::close: writes the buffer out and releases the file, the
\* error state stays as it is; on a stream that is not open it sets failbit.
StreamClose(w) ==
    IF w.file.open
    THEN [w EXCEPT !.file.open = FALSE, !.file.target = NoPath, !.pending = 0]
    ELSE [w EXCEPT !.file.fail = TRUE]

\* operator<< : nothing is written through a stream whose failbit is set
StreamWrite(w, tok) ==
    IF w.file.open /\ ~w.file.fail
    THEN [w EXCEPT !.fs[<<w.file.target, 0>>].data = Append(@, tok),
                   !.pending = @ + 1]
    ELSE w

\* basic_ostream::flush
StreamFlush(w) ==
    IF w.file.open /\ ~w.file.fail THEN [w EXCEPT !.pending = 0] ELSE w

\* std::filesystem::exists / file_size / remove / rename on the model's files
Exists(w, name) == w.fs[name].ex

FileSize(w, name) ==
    Len(w.fs[name].data) -
        (IF w.file.open /\ name = <<w.file.target, 0>> THEN w.pending ELSE 0)

\* (the error_code overloads: a failing step changes nothing and reports
\* through ec, which the code does not read)
Remove(w, name) ==
    IF <<"remove", name[2]>> \in w.faults THEN w
    ELSE [w EXCEPT !.fs[name] = NoFile]

Rename(w, from, to) ==
    IF Exists(w, from) /\ <<"rename", from[2]>> \notin w.faults
    THEN [w EXCEPT !.fs[to] = w.fs[from], !.fs[from] = NoFile]
    ELSE w

\* ------------------------------------------------------------- file helpers
openLogFile(w, truncate) ==
    LET o == StreamOpen(w, truncate)
        d == IF o.file.fail THEN [o EXCEPT !.cerr = @ + 1] ELSE o
    IN [d EXCEPT !.count = 0]

\* a shift loop that starts one index too high
ShiftStartAtLast == LOGGY_ROTATE_BACKUPS

\* the first index of the shift loop: for (i = LOGGY_ROTATE_BACKUPS - 1; ...)
ShiftStart == LOGGY_ROTATE_BACKUPS - 1

\* a shift loop that runs upward, from index 1 to i: every rename then moves
\* what the rename before it has just put there
RECURSIVE ShiftUpward(_, _, _)
ShiftUpward(w, j, i) ==
    IF j > i THEN w
    ELSE LET from == <<w.path, j>>
             to == <<w.path, j + 1>>
             s == IF w.fs[from].ex
                  THEN [w EXCEPT !.fs[to] = w.fs[from], !.fs[from] = NoFile]
                  ELSE w
         IN ShiftUpward(s, j + 1, i)

ShiftBackupsUpward(w, i) == ShiftUpward(w, 1, i)

\* a rotation without the shift loop: the active file replaces path.1
ShiftBackupsSkipped(w, i) == w

\* the loop of rotateIfNeeded, from index i down to 1
RECURSIVE ShiftBackups(_, _)
ShiftBackups(w, i) ==
    IF i < 1 THEN w
    ELSE LET from == <<w.path, i>>
             to == <<w.path, i + 1>>
             s == IF Exists(w, from) THEN Rename(Remove(w, to), from, to) ELSE w
         IN ShiftBackups(s, i - 1)

\* a rotation that gives up when a remove or rename has failed
reopenUnlessError(w) ==
    IF w.faults \ {<<"open", 0>>} # {} THEN w ELSE openLogFile(w, TRUE)

\* the end of rotateIfNeeded: "openLogFile(/*truncate=*/true);", whatever
\* the removes and renames reported
reopenAfterShift(w) == openLogFile(w, TRUE)

\* (check records at which of its returns the call ended)
rotateIfNeeded(w, fileOutput) ==
    IF ~fileOutput THEN [w EXCEPT !.check = "off"]
    ELSE IF ~Exists(w, <<w.path, 0>>) THEN [w EXCEPT !.check = "missing"]
    ELSE IF FileSize(w, <<w.path, 0>>) <= LOGGY_MAX_LOG_FILE_SIZE
         THEN [w EXCEPT !.check = "small"]
    ELSE LET c == StreamClose(StreamFlush(w))
             s == ShiftBackups(c, ShiftStart)
             first == <<w.path, 1>>
             r == Rename(Remove(s, first), <<w.path, 0>>, first)
         IN reopenAfterShift([r EXCEPT !.rot = @ + 1, !.check = "rotated"])

\* -------------------------------------------------------------------- frames
Top(t) == stack[t][Len(stack[t])]
AtPc(t, pc) == stack[t] # <<>> /\ Top(t).pc = pc
SetTop(t, fr) == [stack EXCEPT ![t] = [@ EXCEPT ![Len(@)] = fr]]

\* A thread may enter a public operation when it runs no log call, or from
\* inside the custom handler it is running.
CanCall(t) == stack[t] = <<>> \/ AtPc(t, "in_handler")

\* a lock that is taken without regard to its holder
MutexNotChecked == TRUE

\* std::mutex::lock returns only when no thread holds the mutex
MutexFree == m_mutex = None

NewFrame(level, msg) ==
    [pc |-> "lock1", level |-> level, msg |-> msg, out |-> NoLine,
     handler |-> NoHandler, doConsole |-> FALSE, doFile |-> FALSE,
     autoFlush |-> FALSE, owns |-> FALSE, threw |-> FALSE, sawOpen |-> FALSE,
     inner |-> 0]

\* The stack after thread t entered a public operation: the handler
\* invocation it runs, if any, has made one more call into the Logger.
Entered(t) ==
    IF stack[t] = <<>> THEN stack
    ELSE SetTop(t, [Top(t) EXCEPT !.inner = @ + 1])

\* ------------------------------------------------------------ log / logEx
\* Entry of log/logEx: the two filters, then submit() starts. The message is
\* tagged <<thread, ordinal>>, so every call's text is its own.
LogCall(t, level) ==
    /\ CanCall(t)
    /\ callsLeft[t] > 0
    /\ Len(stack[t]) < MaxDepth
    /\ callsLeft' = [callsLeft EXCEPT ![t] = @ - 1]
    /\ ncalls' = [ncalls EXCEPT ![t] = @ + 1]
    /\ lastCall' = [t |-> t, level |-> level, op |-> "log"]
    /\ stack' = IF loggy_enabled(level) /\ ~RuntimeFilterDrops(level, m_runtimeMinLvl)
                THEN [Entered(t) EXCEPT ![t] =
                          Append(@, NewFrame(level, <<t, ncalls[t] + 1>>))]
                ELSE Entered(t)
    /\ UNCHANGED <<cfgVars, fileVars, sinkVars, m_inHandler, m_mutex, opsLeft>>

\* a submit() that keeps the mutex over the handler and the console write
EarlyUnlockMissing(t) == t

\* "lock.unlock(); // Release lock early for I/O operations": who holds the
\* mutex when the first critical section of submit() is left
EarlyUnlock(t) == None

\* submit(), first critical section: lock, format the line and copy the
\* configuration, unlock. Nothing shared is written, so it is one step.
Snapshot(t) ==
    /\ AtPc(t, "lock1")
    /\ MutexFree
    /\ stack' = SetTop(t, [Top(t) EXCEPT
            !.pc = "dispatch",
            !.out = formatLine(Top(t).level, t, Top(t).msg,
                               m_includeThreadId, m_timeFormat),
            !.handler = m_customHandler,
            !.doConsole = m_consoleOutput,
            !.doFile = m_fileOutput,
            !.autoFlush = m_autoFlush])
    /\ m_mutex' = EarlyUnlock(t)
    /\ UNCHANGED <<cfgVars, fileVars, sinkVars, callsLeft, ncalls, lastCall,
                   m_inHandler, opsLeft>>

\* submit() built with LOGGY_BEST_EFFORT_TRYLOCK=1, first critical section:
\* "if (!m_mutex.try_lock()) return;", then as the default build with the
\* lock adopted.
TrySnapshot(t) ==
    \/ Snapshot(t)
    \/ /\ AtPc(t, "lock1")
       /\ ~MutexFree
       /\ stack' = [stack EXCEPT ![t] = SubSeq(@, 1, Len(@) - 1)]
       /\ UNCHANGED <<cfgVars, fileVars, sinkVars, callsLeft, ncalls, lastCall,
                      m_inHandler, m_mutex, opsLeft>>

\* a dispatch without the reentrancy guard
GuardIgnored(handler, inHandler) == handler # NoHandler

\* "if (handler && !m_inHandler)"
HandlerGuard(handler, inHandler) == handler # NoHandler /\ ~inHandler

\* a dispatch that reads m_customHandler again instead of its copy
MemberHandler(fr) == m_customHandler

\* the handler submit() dispatches to: the local "handler", copied from
\* m_customHandler in the first critical section
LocalHandler(fr) == fr.handler

\* submit(): the handler is entered (m_inHandler = true; handler(out)) or
\* passed over.
Dispatch(t) ==
    /\ AtPc(t, "dispatch")
    /\ IF HandlerGuard(LocalHandler(Top(t)), m_inHandler[t])
       THEN /\ m_inHandler' = [m_inHandler EXCEPT ![t] = TRUE]
            /\ handled' = Append(handled,
                   [h |-> LocalHandler(Top(t)), t |-> t, line |-> Top(t).out,
                    depth |-> Len(stack[t])])
            /\ stack' = SetTop(t, [Top(t) EXCEPT !.pc = "in_handler"])
       ELSE /\ stack' = SetTop(t, [Top(t) EXCEPT !.pc = "console"])
            /\ UNCHANGED <<m_inHandler, handled>>
    /\ UNCHANGED <<cfgVars, fileVars, console, swallowed, callsLeft, ncalls, lastCall,
                   m_mutex, opsLeft>>

\* a handler call whose exception skips "m_inHandler = false"
GuardLeftSet == TRUE

\* m_inHandler after the handler was left by an exception: the catch (...)
\* falls through to "m_inHandler = false"
GuardAfterThrow == FALSE

\* a submit() in which the handler stands in for the built-in sinks
ReturnAfterHandler == "ret"

\* where submit() goes on after the handler block: "if (doConsole) ..."
AfterHandler == "console"

\* The handler returns.
HandlerReturn(t) ==
    /\ AtPc(t, "in_handler")
    /\ m_inHandler' = [m_inHandler EXCEPT ![t] = FALSE]
    /\ stack' = SetTop(t, [Top(t) EXCEPT !.pc = AfterHandler])
    /\ UNCHANGED <<cfgVars, fileVars, sinkVars, callsLeft, ncalls, lastCall,
                   m_mutex, opsLeft>>

\* The handler throws: "catch (...) {}" swallows it.
HandlerThrow(t) ==
    /\ AtPc(t, "in_handler")
    /\ m_inHandler' = [m_inHandler EXCEPT ![t] = GuardAfterThrow]
    /\ stack' = SetTop(t, [Top(t) EXCEPT !.pc = AfterHandler, !.threw = TRUE])
    /\ swallowed' = swallowed + 1
    /\ UNCHANGED <<cfgVars, fileVars, console, handled, callsLeft, ncalls, lastCall,
                   m_mutex, opsLeft>>

\* "std::cout << out": the text of the line, outside any lock
ConsoleText(t) ==
    /\ AtPc(t, "console")
    /\ IF Top(t).doConsole
       THEN /\ console' = Append(console, TextTok(Top(t).out))
            /\ stack' = SetTop(t, [Top(t) EXCEPT !.pc = "console_nl"])
       ELSE /\ stack' = SetTop(t, [Top(t) EXCEPT !.pc = "file"])
            /\ UNCHANGED console
    /\ UNCHANGED <<cfgVars, fileVars, handled, swallowed, callsLeft, ncalls, lastCall,
                   m_inHandler, m_mutex, opsLeft>>

\* "<< '\n'", and the flush of std::cout, which changes nothing it holds
ConsoleNL(t) ==
    /\ AtPc(t, "console_nl")
    /\ console' = Append(console, NLTok)
    /\ stack' = SetTop(t, [Top(t) EXCEPT !.pc = "file"])
    /\ UNCHANGED <<cfgVars, fileVars, handled, swallowed, callsLeft, ncalls, lastCall,
                   m_inHandler, m_mutex, opsLeft>>

\* a check on every write
CheckAlways(count) == TRUE

\* "++m_lineCount % LOGGY_CHECK_INTERVAL == 0"
CheckDue(count) == count % LOGGY_CHECK_INTERVAL = 0

\* a file section that does not ask is_open()
FileSectionUnguarded(w, fileOutput) ==
    LET c == [w EXCEPT !.count = @ + 1, !.check = "none"]
    IN IF c.count % LOGGY_CHECK_INTERVAL = 0 THEN rotateIfNeeded(c, fileOutput) ELSE c

\* the head of the file section, with the mutex held: is_open(), the line
\* counter and the rotation check
FileSection(w, fileOutput) ==
    IF w.file.open
    THEN LET c == [w EXCEPT !.count = @ + 1, !.check = "none"]
         IN IF CheckDue(c.count) THEN rotateIfNeeded(c, fileOutput) ELSE c
    ELSE [w EXCEPT !.check = "none"]

\* submit(), "if (doFile) { lock.lock(); ...": the mutex is taken again, the
\* counter is advanced and the rotation check runs; without doFile the call
\* goes straight to its return. faults are the steps of a rotation that
\* fail in this file section.
FileLockWith(t, faults) ==
    /\ AtPc(t, "file")
    /\ Top(t).doFile => MutexFree
    /\ IF Top(t).doFile
       THEN /\ m_mutex' = t
            /\ SetWorld(FileSection([World EXCEPT !.faults = faults], m_fileOutput))
            /\ stack' = SetTop(t, [Top(t) EXCEPT
                   !.pc = IF m_logFile.open THEN "file_text" ELSE "ret",
                   !.owns = TRUE,
                   !.sawOpen = m_logFile.open])
       ELSE /\ stack' = SetTop(t, [Top(t) EXCEPT !.pc = "ret"])
            /\ UNCHANGED <<fileVars, m_mutex>>
    /\ UNCHANGED <<cfgVars, sinkVars, callsLeft, ncalls, lastCall,
                   m_inHandler, opsLeft>>

\* the file section on a file system that fails no step
FileLock(t) == FileLockWith(t, NoFaults)

\* "m_logFile << out"
FileText(t) ==
    /\ AtPc(t, "file_text")
    /\ SetWorld(StreamWrite(World, TextTok(Top(t).out)))
    /\ stack' = SetTop(t, [Top(t) EXCEPT !.pc = "file_nl"])
    /\ UNCHANGED <<cfgVars, sinkVars, callsLeft, ncalls, lastCall,
                   m_inHandler, m_mutex, opsLeft>>

\* "<< '\n'; if (autoFlush) m_logFile.flush();". Without autoFlush the
\* stream's buffer is written out when the library decides (it is full).
FileNL(t) ==
    /\ AtPc(t, "file_nl")
    /\ \E bufferFull \in BOOLEAN :
          LET w == StreamWrite(World, NLTok)
          IN SetWorld(IF Top(t).autoFlush \/ bufferFull THEN StreamFlush(w) ELSE w)
    /\ stack' = SetTop(t, [Top(t) EXCEPT !.pc = "ret"])
    /\ UNCHANGED <<cfgVars, sinkVars, callsLeft, ncalls, lastCall,
                   m_inHandler, m_mutex, opsLeft>>

\* submit() returns: the unique_lock's destructor releases the mutex if the
\* lock owns it.
Return(t) ==
    /\ AtPc(t, "ret")
    /\ m_mutex' = IF Top(t).owns THEN None ELSE m_mutex
    /\ stack' = [stack EXCEPT ![t] = SubSeq(@, 1, Len(@) - 1)]
    /\ UNCHANGED <<cfgVars, fileVars, sinkVars, callsLeft, ncalls, lastCall,
                   m_inHandler, opsLeft>>

\* --------------------------------------------------------- configuration
\* an operation that takes no lock
LockGuardMissing == TRUE

\* "std::lock_guard<std::mutex> lock(m_mutex);": the operation runs when no
\* thread holds the mutex, and holds it until it returns
LockGuard == MutexFree

\* Entry of a configuration operation op by thread t.
ConfigCall(t, op) ==
    /\ CanCall(t)
    /\ opsLeft[t] > 0
    /\ opsLeft' = [opsLeft EXCEPT ![t] = @ - 1]
    /\ stack' = Entered(t)
    /\ lastCall' = [t |-> t, level |-> DEBUG, op |-> op]
    /\ UNCHANGED <<callsLeft, ncalls, m_inHandler>>

\* setLogPath (ensureDir only creates directories, which are not modelled)
setLogPath(t, path) ==
    /\ ConfigCall(t, "setLogPath")
    /\ LockGuard
    /\ SetWorld(openLogFile([World EXCEPT !.path = path], TRUE))
    /\ UNCHANGED <<cfgVars, sinkVars, m_mutex>>

\* a shutdown that closes without asking is_open()
closeUnguarded(w) == StreamClose(StreamFlush(w))

\* "if (m_logFile.is_open()) { m_logFile.flush(); m_logFile.close(); }"
closeIfOpen(w) == IF w.file.open THEN StreamClose(StreamFlush(w)) ELSE w

shutdown(t) ==
    /\ ConfigCall(t, "shutdown")
    /\ LockGuard
    /\ SetWorld(closeIfOpen(World))
    /\ UNCHANGED <<cfgVars, sinkVars, m_mutex>>

setTimestampFormat(t, format) ==
    /\ ConfigCall(t, "setTimestampFormat")
    /\ LockGuard
    /\ m_timeFormat' = format
    /\ UNCHANGED <<m_runtimeMinLvl, m_consoleOutput, m_fileOutput, m_autoFlush,
                   m_includeThreadId, m_customHandler,
                   fileVars, sinkVars, m_mutex>>

setCustomLogHandler(t, handler) ==
    /\ ConfigCall(t, "setCustomLogHandler")
    /\ LockGuard
    /\ m_customHandler' = handler
    /\ UNCHANGED <<m_runtimeMinLvl, m_consoleOutput, m_fileOutput, m_autoFlush,
                   m_includeThreadId, m_timeFormat,
                   fileVars, sinkVars, m_mutex>>

enableConsoleOutput(t, enable) ==
    /\ ConfigCall(t, "enableConsoleOutput")
    /\ m_consoleOutput' = enable
    /\ UNCHANGED <<m_runtimeMinLvl, m_fileOutput, m_autoFlush,
                   m_includeThreadId, m_timeFormat, m_customHandler,
                   fileVars, sinkVars, m_mutex>>

enableFileOutput(t, enable) ==
    /\ ConfigCall(t, "enableFileOutput")
    /\ m_fileOutput' = enable
    /\ UNCHANGED <<m_runtimeMinLvl, m_consoleOutput, m_autoFlush,
                   m_includeThreadId, m_timeFormat, m_customHandler,
                   fileVars, sinkVars, m_mutex>>

enableAutoFlush(t, enable) ==
    /\ ConfigCall(t, "enableAutoFlush")
    /\ m_autoFlush' = enable
    /\ UNCHANGED <<m_runtimeMinLvl, m_consoleOutput, m_fileOutput,
                   m_includeThreadId, m_timeFormat, m_customHandler,
                   fileVars, sinkVars, m_mutex>>

setLogLevel(t, level) ==
    /\ ConfigCall(t, "setLogLevel")
    /\ m_runtimeMinLvl' = level
    /\ UNCHANGED <<m_consoleOutput, m_fileOutput, m_autoFlush,
                   m_includeThreadId, m_timeFormat, m_customHandler,
                   fileVars, sinkVars, m_mutex>>

includeThreadId(t, on) ==
    /\ ConfigCall(t, "includeThreadId")
    /\ m_includeThreadId' = on
    /\ UNCHANGED <<m_runtimeMinLvl, m_consoleOutput, m_fileOutput, m_autoFlush,
                   m_timeFormat, m_customHandler,
                   fileVars, sinkVars, m_mutex>>

\* ------------------------------------------------------------ specifications
\* The Logger as constructed (the member initializers).
Constructed ==
    /\ m_mutex = None
    /\ m_runtimeMinLvl = DEBUG
    /\ m_consoleOutput = TRUE
    /\ m_fileOutput = TRUE
    /\ m_autoFlush = FALSE
    /\ m_includeThreadId = TRUE
    /\ m_timeFormat = DefaultTimeFormat
    /\ m_customHandler = NoHandler
    /\ m_inHandler = [t \in Threads |-> FALSE]
    /\ console = <<>>
    /\ handled = <<>>
    /\ swallowed = 0
    /\ stack = [t \in Threads |-> <<>>]
    /\ ncalls = [t \in Threads |-> 0]
    /\ lastCall = [t |-> None, level |-> DEBUG, op |-> "none"]

\* No file sink yet (m_logFile default-constructed), an empty file system.
NoSink ==
    /\ m_logFile = ClosedFile
    /\ m_logFilePath = NoPath
    /\ m_lineCount = 0
    /\ fs = [n \in FileNames |-> NoFile]
    /\ pending = 0
    /\ cerr = 0
    /\ rotations = 0
    /\ checkResult = "none"

Init ==
    /\ Constructed
    /\ NoSink
    /\ callsLeft = [t \in Threads |-> IF t = 1 THEN MaxCalls ELSE 0]
    /\ opsLeft = [t \in Threads |-> IF t = 1 THEN MaxOps ELSE 0]

Pipeline(t) ==
    \/ Snapshot(t)
    \/ Dispatch(t)
    \/ ConsoleText(t)
    \/ ConsoleNL(t)
    \/ FileLock(t)
    \/ FileText(t)
    \/ FileNL(t)
    \/ Return(t)

\* A setter is called with a value other than the one stored: a call that
\* stores the value already there changes nothing of the Logger.
Next ==
    \E t \in Threads :
        \/ \E level \in LevelInputs : LogCall(t, level)
        \/ Pipeline(t)
        \/ HandlerReturn(t)
        \/ HandlerThrow(t)
        \/ \E path \in PathInputs : setLogPath(t, path)
        \/ shutdown(t)
        \/ \E format \in TimeFormatInputs \ {m_timeFormat} :
              setTimestampFormat(t, format)
        \/ \E handler \in HandlerInputs \ {m_customHandler} :
              setCustomLogHandler(t, handler)
        \/ \E enable \in BOOLEAN \ {m_consoleOutput} : enableConsoleOutput(t, enable)
        \/ \E enable \in BOOLEAN \ {m_fileOutput} : enableFileOutput(t, enable)
        \/ \E enable \in BOOLEAN \ {m_autoFlush} : enableAutoFlush(t, enable)
        \/ \E level \in LevelInputs \ {m_runtimeMinLvl} : setLogLevel(t, level)
        \/ \E on \in BOOLEAN \ {m_includeThreadId} : includeThreadId(t, on)

\* One thread that logs and calls every configuration operation, between its
\* log calls and from inside the handler it runs.
Spec == Init /\ [][Next]_vars

\* One thread that configures the file sink and logs: the sequences of
\* setLogPath, log and shutdown, with the rotations they cause.
InitSeq ==
    /\ Constructed
    /\ NoSink
    /\ callsLeft = [t \in Threads |-> IF t = 1 THEN SeqCalls ELSE 0]
    /\ opsLeft = [t \in Threads |-> IF t = 1 THEN SeqOps ELSE 0]

NextSeq ==
    \E t \in Threads :
        \/ LogCall(t, WARN)
        \/ Pipeline(t)
        \/ \E path \in PathInputs : setLogPath(t, path)
        \/ shutdown(t)

SpecSeq == InitSeq /\ [][NextSeq]_vars

\* Threads that only log, after one setLogPath("p1") on the constructed
\* Logger.
InitConc ==
    /\ Constructed
    /\ m_logFile = [open |-> TRUE, target |-> "p1", fail |-> FALSE]
    /\ m_logFilePath = "p1"
    /\ m_lineCount = 0
    /\ fs = [n \in FileNames |->
                 IF n = <<"p1", 0>> THEN [ex |-> TRUE, data |-> <<>>] ELSE NoFile]
    /\ pending = 0
    /\ cerr = 0
    /\ rotations = 0
    /\ checkResult = "none"
    /\ callsLeft = [t \in Threads |-> ConcCalls]
    /\ opsLeft = [t \in Threads |-> 0]

NextConc ==
    \E t \in Threads :
        \/ LogCall(t, WARN)
        \/ Pipeline(t)

SpecConc == InitConc /\ [][NextConc]_vars

\* The file sink after one setLogPath("p1") on the constructed Logger.
SinkOnP1 ==
    /\ m_logFile = [open |-> TRUE, target |-> "p1", fail |-> FALSE]
    /\ m_logFilePath = "p1"
    /\ m_lineCount = 0
    /\ fs = [n \in FileNames |->
                 IF n = <<"p1", 0>> THEN [ex |-> TRUE, data |-> <<>>] ELSE NoFile]
    /\ pending = 0
    /\ cerr = 0
    /\ rotations = 0
    /\ checkResult = "none"

\* The members as constructed, but for the console switch and the handler:
\* the Logger after enableConsoleOutput(enable), setCustomLogHandler(handler).
Configured(enable, handler) ==
    /\ m_mutex = None
    /\ m_runtimeMinLvl = DEBUG
    /\ m_consoleOutput = enable
    /\ m_fileOutput = TRUE
    /\ m_autoFlush = FALSE
    /\ m_includeThreadId = TRUE
    /\ m_timeFormat = DefaultTimeFormat
    /\ m_customHandler = handler
    /\ m_inHandler = [t \in Threads |-> FALSE]
    /\ console = <<>>
    /\ handled = <<>>
    /\ swallowed = 0
    /\ stack = [t \in Threads |-> <<>>]
    /\ ncalls = [t \in Threads |-> 0]
    /\ lastCall = [t |-> None, level |-> DEBUG, op |-> "none"]

ConstructedWith(handler) == Configured(TRUE, handler)

\* One thread that logs, shuts the sink down and sets the path again, with
\* a handler registered, after setLogPath("p1") and setCustomLogHandler.
InitShut ==
    /\ ConstructedWith(1)
    /\ SinkOnP1
    /\ callsLeft = [t \in Threads |-> IF t = 1 THEN ShutCalls ELSE 0]
    /\ opsLeft = [t \in Threads |-> IF t = 1 THEN ShutOps ELSE 0]

NextShut ==
    \E t \in Threads :
        \/ LogCall(t, WARN)
        \/ Pipeline(t)
        \/ HandlerReturn(t)
        \/ \E path \in PathInputs : setLogPath(t, path)
        \/ shutdown(t)

SpecShut == InitShut /\ [][NextShut]_vars

\* One thread that logs, on a Logger with or without a handler registered
\* after setLogPath("p1"); the handler returns or throws and calls nothing.
InitAug ==
    /\ \E handler \in HandlerInputs : ConstructedWith(handler)
    /\ SinkOnP1
    /\ callsLeft = [t \in Threads |-> IF t = 1 THEN AugCalls ELSE 0]
    /\ opsLeft = [t \in Threads |-> 0]

NextAug ==
    \E t \in Threads :
        \/ stack[t] = <<>> /\ LogCall(t, WARN)
        \/ Pipeline(t)
        \/ HandlerReturn(t)
        \/ HandlerThrow(t)

SpecAug == InitAug /\ [][NextAug]_vars

\* The build with LOGGY_BEST_EFFORT_TRYLOCK=1: threads that only log, after
\* one setLogPath("p1") on the constructed Logger.
InitTry ==
    /\ Constructed
    /\ SinkOnP1
    /\ callsLeft = [t \in Threads |-> TryCalls]
    /\ opsLeft = [t \in Threads |-> 0]

PipelineTry(t) ==
    \/ TrySnapshot(t)
    \/ Dispatch(t)
    \/ ConsoleText(t)
    \/ ConsoleNL(t)
    \/ FileLock(t)
    \/ FileText(t)
    \/ FileNL(t)
    \/ Return(t)

NextTry ==
    \E t \in Threads :
        \/ LogCall(t, WARN)
        \/ PipelineTry(t)

SpecTry == InitTry /\ [][NextTry]_vars

\* Two threads that log while thread 2 also sets the path and shuts down,
\* after enableConsoleOutput(false) and setLogPath("p1").
InitFile ==
    /\ Configured(FALSE, NoHandler)
    /\ SinkOnP1
    /\ callsLeft = [t \in Threads |-> FileCalls]
    /\ opsLeft = [t \in Threads |-> IF t = 2 THEN FileOps ELSE 0]

\* (console output is off in every snapshot here, so submit() never gets
\* to the console's newline)
NextFile ==
    \E t \in Threads :
        \/ LogCall(t, WARN)
        \/ Snapshot(t)
        \/ Dispatch(t)
        \/ ConsoleText(t)
        \/ FileLock(t)
        \/ FileText(t)
        \/ FileNL(t)
        \/ Return(t)
        \/ \E path \in PathInputs : setLogPath(t, path)
        \/ shutdown(t)

SpecFile == InitFile /\ [][NextFile]_vars

\* Thread 1 logs while thread 2 calls the setters of what submit() copies
\* in its first critical section, after setLogPath("p1") and
\* setCustomLogHandler; the handler returns and calls nothing.
SnapHandlers == HandlerInputs \cup {2}

InitSnap ==
    /\ ConstructedWith(1)
    /\ SinkOnP1
    /\ callsLeft = [t \in Threads |-> IF t = 1 THEN SnapCalls ELSE 0]
    /\ opsLeft = [t \in Threads |-> IF t = 2 THEN SnapOps ELSE 0]

NextSnap ==
    \E t \in Threads :
        \/ stack[t] = <<>> /\ LogCall(t, WARN)
        \/ Pipeline(t)
        \/ HandlerReturn(t)
        \/ \E format \in TimeFormatInputs \ {m_timeFormat} :
              setTimestampFormat(t, format)
        \/ \E handler \in SnapHandlers \ {m_customHandler} :
              setCustomLogHandler(t, handler)
        \/ \E enable \in BOOLEAN \ {m_consoleOutput} : enableConsoleOutput(t, enable)
        \/ \E enable \in BOOLEAN \ {m_fileOutput} : enableFileOutput(t, enable)
        \/ \E enable \in BOOLEAN \ {m_autoFlush} : enableAutoFlush(t, enable)

SpecSnap == InitSnap /\ [][NextSnap]_vars

\* One thread that logs to p1 on a file system that can fail any steps of
\* any rotation, after enableConsoleOutput(false) and setLogPath("p1").
InitRot ==
    /\ Configured(FALSE, NoHandler)
    /\ SinkOnP1
    /\ callsLeft = [t \in Threads |-> IF t = 1 THEN RotCalls ELSE 0]
    /\ opsLeft = [t \in Threads |-> 0]

NextRot ==
    \E t \in Threads :
        \/ LogCall(t, WARN)
        \/ Snapshot(t)
        \/ Dispatch(t)
        \/ ConsoleText(t)
        \/ \E faults \in SUBSET FaultSteps : FileLockWith(t, faults)
        \/ FileText(t)
        \/ FileNL(t)
        \/ Return(t)

SpecRot == InitRot /\ [][NextRot]_vars

\* ================================================================== claims
N == LOGGY_ROTATE_BACKUPS
Active(p) == <<p, 0>>
Backup(p, i) == <<p, i>>

\* a sink holds whole lines: text, newline, text, newline, ...
Alternates(d) == \A i \in 1..Len(d) : d[i].nl = (i % 2 = 0)

\* how often the text of a line was written to a sink
Occurrences(d, line) == Cardinality({i \in 1..Len(d) : d[i] = TextTok(line)})

\* the line is in the sink once, with its newline right behind it
Delivered(d, line) ==
    /\ Occurrences(d, line) = 1
    /\ \E i \in 1..(Len(d) - 1) : d[i] = TextTok(line) /\ d[i + 1] = NLTok

AllDone == \A t \in Threads : stack[t] = <<>> /\ callsLeft[t] = 0

\* what the built-in sinks hold when the call of frame fr is at its return:
\* the console its line iff the call's snapshot had the console enabled, the
\* file its line if the snapshot had file output enabled and the call found
\* the file open and its stream accepting writes
SinksServed(fr) ==
    /\ IF fr.doConsole THEN Delivered(console, fr.out)
                       ELSE Occurrences(console, fr.out) = 0
    /\ (fr.doFile /\ fr.sawOpen /\ ~m_logFile.fail) =>
          /\ m_logFile.open
          /\ Delivered(fs[Active(m_logFile.target)].data, fr.out)

\* C1 (SpecConc): threads that each log ConcCalls times at a passing level,
\* with the file opened once by setLogPath and no rotation: the file always
\* holds whole lines only, and once all calls have returned it holds the
\* formatted line of every call exactly once, and nothing else.
C1_FileHoldsEveryLineIntact ==
    LET d == fs[Active("p1")].data
    IN rotations = 0 =>
         /\ Alternates(d)
         /\ AllDone =>
              /\ Len(d) = 2 * Cardinality(Threads) * ConcCalls
              /\ \A t \in Threads : \A k \in 1..ConcCalls :
                    Occurrences(d, formatLine(WARN, t, <<t, k>>,
                                              m_includeThreadId, m_timeFormat)) = 1

C1_Witness ==
    /\ AllDone
    /\ rotations = 0
    /\ Len(fs[Active("p1")].data) = 2 * Cardinality(Threads) * ConcCalls

\* C2 (SpecConc): the console write is made inside a critical section, so
\* the console holds whole lines only: no text of one call is followed by
\* output of another call before its own newline.
C2_ConsoleLinesIntact == Alternates(console)

\* C3 (SpecSeq): whenever the file sink is open, its handle is on the file at
\* m_logFilePath, that file exists and the stream accepts writes.
C3_OpenSinkFollowsPath ==
    m_logFile.open =>
        /\ m_logFile.target = m_logFilePath
        /\ ~m_logFile.fail
        /\ fs[Active(m_logFilePath)].ex

\* C4 (Spec): a log call whose level is below the runtime minimum changes no
\* sink, no file state, not the mutex, not the line counter, and starts no
\* submit().
C4_FilteredCallSilent ==
    [][(lastCall'.op = "log" /\ callsLeft' # callsLeft
           /\ lastCall'.level < m_runtimeMinLvl) =>
          /\ UNCHANGED <<console, handled, swallowed>>
          /\ UNCHANGED fileVars
          /\ UNCHANGED <<m_mutex, m_inHandler, cfgVars>>
          /\ \A t \in Threads : Len(stack'[t]) = Len(stack[t])]_vars

C4_Witness ==
    /\ lastCall.t = 1
    /\ lastCall.op = "log"
    /\ lastCall.level < m_runtimeMinLvl
    /\ ncalls[1] = 1
    /\ opsLeft[1] = MaxOps - 1
    /\ stack[1] = <<>>
    /\ m_consoleOutput
    /\ console = <<>>

\* C5 (SpecSeq): when a passing log call returns, each enabled sink has its
\* line exactly once: the handler one invocation with it (when registered
\* and the thread was not inside a handler), the console the line and its
\* newline (when enabled), the file the line and its newline (when file
\* output is enabled and the file is open).
C5_OneLinePerEnabledSink ==
    \A t \in Threads :
        AtPc(t, "ret") =>
            LET fr == Top(t)
                got == {i \in 1..Len(handled) : handled[i].line = fr.out}
            IN /\ Cardinality(got) =
                     (IF fr.handler # NoHandler /\ Len(stack[t]) = 1 THEN 1 ELSE 0)
               /\ IF fr.doConsole THEN Delivered(console, fr.out)
                                  ELSE Occurrences(console, fr.out) = 0
               /\ (fr.doFile /\ fr.sawOpen) =>
                     /\ m_logFile.open
                     /\ Delivered(fs[Active(m_logFile.target)].data, fr.out)

\* C6 (SpecSeq): the backups of a path are always path.1 .. path.k for some
\* k <= N, and a rotation made when path.N exists leaves no file with what
\* path.N held.
BackupsNumbered(f, p) ==
    \A i \in BackupIdx :
        f[Backup(p, i)].ex => (i <= N /\ (i > 1 => f[Backup(p, i - 1)].ex))

C6_BackupsBounded ==
    [][/\ \A p \in PathInputs : BackupsNumbered(fs', p)
       /\ (rotations' # rotations /\ fs[Backup(m_logFilePath, N)].ex) =>
              \A n \in FileNames : fs'[n] # fs[Backup(m_logFilePath, N)]]_vars

C6_Witness ==
    /\ rotations = N + 1
    /\ fs[Backup("p1", N)].ex
    /\ ~fs[Active("p2")].ex

\* C7 (SpecSeq): a rotation makes path.1 what the active file was, path.(i+1)
\* what path.i was for every existing path.i with i < N, leaves the active
\* file open and empty, and the line counter 0.
C7_RotationShifts ==
    [][rotations' # rotations =>
          LET p == m_logFilePath
          IN /\ fs[Active(p)].ex
             /\ fs'[Backup(p, 1)] = fs[Active(p)]
             /\ \A i \in 1..(N - 1) :
                   fs[Backup(p, i)].ex => fs'[Backup(p, i + 1)] = fs[Backup(p, i)]
             /\ fs'[Active(p)] = [ex |-> TRUE, data |-> <<>>]
             /\ m_logFile' = [open |-> TRUE, target |-> p, fail |-> FALSE]
             /\ m_lineCount' = 0]_vars

C7_Witness ==
    /\ rotations = 3
    /\ AtPc(1, "file_text")
    /\ m_lineCount = 0
    /\ fs[Active("p1")].data = <<>>
    /\ fs[Backup("p1", 3)].ex

\* C8 (Spec): a thread runs the handler at most once at a time: the handler
\* is only ever invoked by a thread's outermost log call, and a log call
\* made from inside the handler is not held up at the mutex by its own
\* thread and has served the console and the file when it returns.
C8_HandlerNotReentered ==
    \A t \in Threads :
        /\ Cardinality({i \in 1..Len(stack[t]) : stack[t][i].pc = "in_handler"}) <= 1
        /\ m_inHandler[t] = (\E i \in 1..Len(stack[t]) : stack[t][i].pc = "in_handler")
        /\ \A i \in 1..Len(handled) : handled[i].depth = 1
        /\ Len(stack[t]) > 1 =>
              /\ Top(t).pc \in {"lock1", "file"} => m_mutex # t
              /\ Top(t).pc # "in_handler"
              /\ Top(t).pc = "ret" => SinksServed(Top(t))

C8_Witness ==
    /\ Len(stack[1]) = 2
    /\ Top(1).pc = "ret"
    /\ Top(1).handler # NoHandler
    /\ Top(1).doConsole
    /\ Top(1).sawOpen
    /\ Len(handled) = 1

\* C9 (Spec): a thread that runs the handler does not hold the mutex, a
\* thread is never about to lock the mutex it holds itself, and a thread that
\* runs no operation of the Logger does not hold it.
C9_HandlerOutsideLock ==
    \A t \in Threads :
        /\ AtPc(t, "in_handler") => m_mutex # t
        /\ (AtPc(t, "lock1") \/ (AtPc(t, "file") /\ Top(t).doFile)) => m_mutex # t
        /\ stack[t] = <<>> => m_mutex # t

C9_Witness ==
    /\ AtPc(1, "in_handler")
    /\ Len(stack[1]) = 1
    /\ ncalls[1] = 1
    /\ Top(1).inner >= 1
    /\ m_mutex = None

\* C10 (Spec): a handler failure is swallowed: the step that catches it
\* clears the thread's guard and goes on to the console write with the
\* call's snapshot untouched; when that call returns the console and the
\* file have its line as its snapshot says; and the thread's next outermost
\* log call with a handler registered enters the handler.
C10_HandlerFailureSwallowed ==
    [][\A t \in Threads :
          /\ (swallowed' # swallowed /\ AtPc(t, "in_handler")) =>
                /\ ~m_inHandler'[t]
                /\ Len(stack'[t]) = Len(stack[t])
                /\ Top(t)' = [Top(t) EXCEPT !.pc = "console", !.threw = TRUE]
          /\ ((AtPc(t, "ret") /\ Top(t).threw) => SinksServed(Top(t)))'
          /\ (AtPc(t, "dispatch") /\ Len(stack[t]) = 1 /\ stack'[t] # stack[t]
                /\ Top(t).handler # NoHandler) =>
                /\ AtPc(t, "in_handler")'
                /\ handled' # handled]_vars

C10_Witness ==
    /\ swallowed >= 1
    /\ ncalls[1] = 2
    /\ Len(stack[1]) = 1
    /\ AtPc(1, "in_handler")
    /\ Len(handled) = 2

\* C11 (SpecShut): shutdown is idempotent. Every shutdown leaves the sink
\* closed, writes to no sink, emits no diagnostic and leaves the content of
\* the active file and of the backups as it was; a shutdown that follows a
\* shutdown changes nothing at all.
C11_ShutdownIdempotent ==
    [][(lastCall'.op = "shutdown" /\ opsLeft' # opsLeft) =>
          /\ ~m_logFile'.open
          /\ UNCHANGED <<console, handled, swallowed, cerr>>
          /\ fs' = fs
          /\ lastCall.op = "shutdown" =>
                UNCHANGED <<fileVars, sinkVars, cfgVars, m_mutex, m_inHandler>>]_vars

C11_Witness ==
    /\ lastCall.op = "shutdown"
    /\ opsLeft[1] = ShutOps - 2
    /\ cerr = 0
    /\ ~m_logFile.open
    /\ fs[Active("p1")].data # <<>>
    /\ rotations >= 1

\* the handler was invoked with the line of frame fr
HandlerGot(fr) == \E i \in 1..Len(handled) : handled[i].line = fr.out

\* C12 (SpecShut): while the sink is closed, every step other than a
\* setLogPath leaves the stream, the active file, the backups and the line
\* counter as they are and rotates nothing, and a log call that returns has
\* served the console and (an outermost call) the handler; a setLogPath
\* with an openable path then leaves the sink open on that path, empty, with
\* no diagnostic, and a call that finds the sink open and accepting writes
\* has its line in the active file when it returns.
C12_ClosedSinkUntilSetLogPath ==
    [][/\ (~m_logFile.open /\ ~(lastCall'.op = "setLogPath" /\ opsLeft' # opsLeft)) =>
             UNCHANGED <<m_logFile, fs, pending, m_lineCount, rotations, cerr>>
       /\ \A t \in Threads :
             (AtPc(t, "ret") =>
                 /\ SinksServed(Top(t))
                 /\ (Top(t).handler # NoHandler /\ Len(stack[t]) = 1) =>
                        HandlerGot(Top(t)))'
       /\ (~m_logFile.open /\ lastCall'.op = "setLogPath" /\ opsLeft' # opsLeft
              /\ Openable(m_logFilePath')) =>
             /\ m_logFile' = [open |-> TRUE, target |-> m_logFilePath', fail |-> FALSE]
             /\ fs'[Active(m_logFilePath')] = [ex |-> TRUE, data |-> <<>>]
             /\ m_lineCount' = 0
             /\ cerr' = cerr]_vars

\* a call returns with its line in p2, opened after a shutdown of p1, and a
\* call made in between reached the console and the handler only
C12_Witness ==
    /\ AtPc(1, "ret")
    /\ Len(stack[1]) = 1
    /\ cerr = 0
    /\ rotations = 0
    /\ m_logFile = [open |-> TRUE, target |-> "p2", fail |-> FALSE]
    /\ Delivered(fs[Active("p2")].data, Top(1).out)
    /\ fs[Active("p1")].data # <<>>
    /\ Len(console) > Len(fs[Active("p1")].data) + Len(fs[Active("p2")].data)
    /\ Len(handled) = ncalls[1]

\* C13 (SpecSeq): a step that emits the open-failure diagnostic emits
\* exactly one and leaves the sink closed (is_open() false), and while the
\* sink is closed no step of a log call opens it or emits a diagnostic.
C13_FailedOpenLeavesClosed ==
    [][/\ cerr' # cerr => (cerr' = cerr + 1 /\ ~m_logFile'.open)
       /\ (~m_logFile.open /\ opsLeft' = opsLeft) =>
             (~m_logFile'.open /\ cerr' = cerr)]_vars

\* what a sink holds after the first k calls of thread 1 under SpecAug, each
\* at WARN with the default settings: their lines, each with its newline
ExpectedTokens(k) ==
    [i \in 1..(2 * k) |->
        IF i % 2 = 1
        THEN TextTok(formatLine(WARN, 1, <<1, (i + 1) \div 2>>, TRUE, DefaultTimeFormat))
        ELSE NLTok]

IsPrefix(a, b) == Len(a) <= Len(b) /\ a = SubSeq(b, 1, Len(a))

\* the backups of p from the oldest to the newest, then the active file
AllFileData(p) ==
    fs[Backup(p, 3)].data \o fs[Backup(p, 2)].data \o fs[Backup(p, 1)].data
        \o fs[Active(p)].data

\* C14 (SpecAug): with and without a handler registered the console and the
\* file receive the same output, the lines of the calls in order, each once
\* with its newline; the handler, when registered, receives exactly these
\* line texts, one per call.
C14_HandlerAugments ==
    LET made == ExpectedTokens(ncalls[1])
    IN /\ IsPrefix(console, made)
       /\ IsPrefix(AllFileData("p1"), made)
       /\ \A i \in 1..Len(handled) : TextTok(handled[i].line) = made[2 * i - 1]
       /\ stack[1] = <<>> =>
             /\ console = made
             /\ AllFileData("p1") = made
             /\ Len(handled) = (IF m_customHandler = NoHandler THEN 0 ELSE ncalls[1])

C14_Witness ==
    /\ stack[1] = <<>>
    /\ m_customHandler # NoHandler
    /\ ncalls[1] = AugCalls
    /\ Len(handled) = AugCalls
    /\ swallowed >= 1
    /\ rotations >= 1
    /\ console = ExpectedTokens(AugCalls)
    /\ AllFileData("p1") = ExpectedTokens(AugCalls)

\* C15 (SpecTry): in the try-lock build a log call never waits for the
\* mutex: a thread inside a call can always take the call's next step,
\* whoever holds the mutex.
C15_TryLockNeverWaits ==
    \A t \in Threads : stack[t] # <<>> => ENABLED PipelineTry(t)

\* thread t takes the step: it enters an operation or moves in its call
Actor(t) ==
    \/ stack'[t] # stack[t]
    \/ opsLeft'[t] # opsLeft[t]
    \/ callsLeft'[t] # callsLeft[t]

\* C16 (SpecFile): the file state (stream, path, line counter, files) is
\* changed only by a thread that holds the mutex: never while another
\* thread holds it, and a thread inside a log call holds it when its step
\* has changed the file state.
C16_FileStateUnderMutex ==
    [][\A t \in Threads :
          (Actor(t) /\ fileVars' # fileVars) =>
              /\ m_mutex \in {None, t}
              /\ stack'[t] # <<>> => m_mutex' = t]_vars

\* thread 2 has shut the sink down between two file sections of thread 1,
\* while thread 1 was inside its second call
C16_Witness ==
    /\ lastCall.op = "shutdown"
    /\ lastCall.t = 2
    /\ AtPc(1, "ret")
    /\ Top(1).owns
    /\ ~Top(1).sawOpen
    /\ ncalls[1] = 2
    /\ fs[Active("p1")].data # <<>>

\* what a call copied in its first critical section
SnapshotOf(fr) == <<fr.out, fr.handler, fr.doConsole, fr.doFile, fr.autoFlush>>

\* C17 (SpecSnap): a log call copies timestamp format, handler, console
\* switch, file switch and auto-flush as they are when it takes its first
\* critical section, so a call that starts after a setter has returned has
\* the new value; the copies stay as they are while setters run; and the
\* call invokes the copied handler (none if it copied none), writes the
\* console iff its copy of the console switch is set, the file only if its
\* copy of the file switch is set, and flushes the file if its copy of
\* auto-flush is set.
C17_DispatchBySnapshot ==
    [][\A t \in Threads :
          /\ (AtPc(t, "lock1") /\ AtPc(t, "dispatch")') =>
                SnapshotOf(Top(t))' =
                    <<formatLine(Top(t).level, t, Top(t).msg, m_includeThreadId,
                                 m_timeFormat),
                      m_customHandler, m_consoleOutput, m_fileOutput, m_autoFlush>>
          /\ (stack[t] # <<>> /\ Top(t).pc # "lock1" /\ stack'[t] # <<>>) =>
                SnapshotOf(Top(t))' = SnapshotOf(Top(t))
          /\ (AtPc(t, "dispatch") /\ stack'[t] # stack[t]) =>
                IF Top(t).handler = NoHandler
                THEN handled' = handled
                ELSE handled' = Append(handled,
                         [h |-> Top(t).handler, t |-> t, line |-> Top(t).out,
                          depth |-> 1])
          /\ (Actor(t) /\ ~AtPc(t, "dispatch")) => handled' = handled
          /\ (Actor(t) /\ console' # console) => Top(t).doConsole
          /\ (Actor(t) /\ fs' # fs) => Top(t).doFile
          /\ (AtPc(t, "ret") =>
                 /\ SinksServed(Top(t))
                 /\ ~Top(t).doFile => Occurrences(AllFileData("p1"), Top(t).out) = 0)'
          /\ (AtPc(t, "file_nl") /\ Top(t).autoFlush /\ stack'[t] # stack[t]) =>
                pending' = 0]_vars

\* a call returns after its own handler and its console line, both switched
\* by thread 2 after the call had taken its copies
C17_Witness ==
    /\ AtPc(1, "ret")
    /\ ncalls[1] = 1
    /\ Top(1).handler = 1
    /\ m_customHandler = 2
    /\ Top(1).doConsole
    /\ ~m_consoleOutput
    /\ Len(handled) = 1
    /\ handled[1].h = 1
    /\ Delivered(console, Top(1).out)

K == LOGGY_CHECK_INTERVAL

\* thread t enters its file section with the sink open: a file write
FileWrite(t) ==
    /\ AtPc(t, "file")
    /\ Top(t).doFile
    /\ m_logFile.open
    /\ stack'[t] # stack[t]

\* C18 (SpecSeq): the rotation check runs on a file write iff the write's
\* ordinal since the last counter reset is a multiple of K; a check that
\* does not rotate leaves the counter at that ordinal and the stream, the
\* active file and the backups as they are; a rotation and every setLogPath
\* set the counter to 0; no other step changes the counter.
C18_CheckEveryKthWrite ==
    [][/\ \A t \in Threads :
             FileWrite(t) =>
                 LET ordinal == m_lineCount + 1
                 IN /\ ordinal >= 1
                    /\ (checkResult' # "none") <=> (ordinal % K = 0)
                    /\ (checkResult' = "rotated") <=> (rotations' = rotations + 1)
                    /\ checkResult' = "rotated" => m_lineCount' = 0
                    /\ checkResult' # "rotated" =>
                          /\ m_lineCount' = ordinal
                          /\ rotations' = rotations
                          /\ UNCHANGED <<m_logFile, m_logFilePath, fs, cerr>>
                    /\ checkResult' = "missing" => ~fs[Active(m_logFilePath)].ex
                    /\ checkResult' = "small" =>
                          FileSize(World, Active(m_logFilePath)) <= LOGGY_MAX_LOG_FILE_SIZE
       /\ (lastCall'.op = "setLogPath" /\ opsLeft' # opsLeft) => m_lineCount' = 0
       /\ (m_lineCount' # m_lineCount) =>
             \/ lastCall'.op = "setLogPath" /\ opsLeft' # opsLeft
             \/ \E t \in Threads : FileWrite(t)]_vars

\* after a rotation, a check at ordinal K and a check at ordinal 2K have
\* both found the file within the budget
C18_Witness ==
    /\ AtPc(1, "file_text")
    /\ rotations >= 1
    /\ checkResult = "small"
    /\ m_lineCount = 2 * K

\* C19 (SpecSeq): the line is appended before the counter is advanced and
\* the check runs, so when a log call whose file section rotated returns,
\* its line is in path.1 and the reopened active file is empty.
C19_TriggeringLineInBackup ==
    \A t \in Threads :
        (AtPc(t, "ret") /\ Top(t).sawOpen /\ checkResult = "rotated") =>
            /\ Delivered(fs[Backup(m_logFilePath, 1)].data, Top(t).out)
            /\ fs[Active(m_logFilePath)].data = <<>>

\* C20 (SpecRot): a rotation in which any removes and renames fail still
\* ends with the reopen and goes on with the call: the counter is 0, the
\* thread keeps the mutex and is about to write its line; the sink is open
\* on the configured path, empty and accepting writes, unless the reopen
\* itself failed (then closed, with one diagnostic); the call then returns,
\* releasing the mutex, with its line as the only line of the active file
\* when the sink is open.
C20_RotationBestEffort ==
    [][\A t \in Threads :
          /\ (Actor(t) /\ rotations' # rotations) =>
                /\ m_lineCount' = 0
                /\ Len(stack'[t]) = Len(stack[t])
                /\ AtPc(t, "file_text")'
                /\ m_mutex' = t
                /\ m_logFilePath' = m_logFilePath
                /\ IF m_logFile'.open
                   THEN /\ m_logFile' = [open |-> TRUE, target |-> m_logFilePath,
                                         fail |-> FALSE]
                        /\ fs'[Active(m_logFilePath)] = [ex |-> TRUE, data |-> <<>>]
                        /\ cerr' = cerr
                   ELSE /\ m_logFile'.fail
                        /\ cerr' = cerr + 1
          /\ (AtPc(t, "ret") /\ checkResult = "rotated" /\ Actor(t)) =>
                /\ stack'[t] = <<>>
                /\ m_mutex' = None
                /\ m_logFile.open =>
                      fs[Active(m_logFilePath)].data = <<TextTok(Top(t).out), NLTok>>
                /\ UNCHANGED fileVars]_vars

\* the first rotation has run with the rename of the active file failing
\* (there is no p1.1), and the call that triggered it is at its return with
\* its line in the reopened file
C20_Witness ==
    /\ AtPc(1, "ret")
    /\ rotations = 1
    /\ checkResult = "rotated"
    /\ ~fs[Backup("p1", 1)].ex
    /\ m_lineCount = 0
    /\ m_logFile = [open |-> TRUE, target |-> "p1", fail |-> FALSE]
    /\ fs[Active("p1")].data = <<TextTok(Top(1).out), NLTok>>

\* ------------------------------------------------- the Logger of src/Loggy.h
\* The older Logger has one critical section: log() takes m_mutex with a
\* std::lock_guard as its first statement and holds it to its return, over
\* the filter, the formatting, the handler call and the built-in sinks. The
\* handler stands in for the built-in sinks, there is no reentrancy guard
\* and no try/catch. Its members share the variables of the model above
\* (m_currentLogLevel is held in m_runtimeMinLvl); its frames reuse the
\* frame record with the positions "h_lock", "h_locked", "h_in_handler" and
\* "h_ret".

\* rotation threshold of the older Logger, in tokens
MAX_LOG_FILE_SIZE == 2

\* Loggy.h openLogFile: open(m_logFilePath, out | trunc), a diagnostic when
\* the stream is in a failed state afterwards
h_openLogFile(w) ==
    LET o == StreamOpen(w, TRUE)
    IN IF o.file.fail THEN [o EXCEPT !.cerr = @ + 1] ELSE o

\* Loggy.h rotateLogIfNeeded: an oversized log file is closed, removed and
\* opened again; nothing is kept
rotateLogIfNeeded(w) ==
    IF Exists(w, <<w.path, 0>>) /\ FileSize(w, <<w.path, 0>>) > MAX_LOG_FILE_SIZE
    THEN h_openLogFile([Remove(StreamClose(w), <<w.path, 0>>) EXCEPT !.rot = @ + 1])
    ELSE w

\* A thread may call log() when it runs no log call, or from inside the
\* handler it is running.
h_CanCall(t) == stack[t] = <<>> \/ AtPc(t, "h_in_handler")

\* Logger::log is entered: the thread arrives at the lock_guard.
h_log(t, level) ==
    /\ h_CanCall(t)
    /\ callsLeft[t] > 0
    /\ Len(stack[t]) < MaxDepth
    /\ callsLeft' = [callsLeft EXCEPT ![t] = @ - 1]
    /\ ncalls' = [ncalls EXCEPT ![t] = @ + 1]
    /\ lastCall' = [t |-> t, level |-> level, op |-> "log"]
    /\ stack' = [Entered(t) EXCEPT ![t] =
                    Append(@, [NewFrame(level, <<t, ncalls[t] + 1>>)
                                   EXCEPT !.pc = "h_lock"])]
    /\ UNCHANGED <<cfgVars, fileVars, sinkVars, m_inHandler, m_mutex, opsLeft>>

\* "std::lock_guard<std::mutex> lock(m_mutex);" with the mutex free, then
\* the filter "if (level < m_currentLogLevel) return;" and formatLogMessage
\* (which always writes the thread id).
h_lock_guard(t) ==
    /\ AtPc(t, "h_lock")
    /\ m_mutex = None
    /\ m_mutex' = t
    /\ stack' = SetTop(t,
           IF Top(t).level < m_runtimeMinLvl
           THEN [Top(t) EXCEPT !.pc = "h_ret", !.owns = TRUE]
           ELSE [Top(t) EXCEPT !.pc = "h_locked", !.owns = TRUE,
                               !.out = formatLine(Top(t).level, t, Top(t).msg,
                                                  TRUE, m_timeFormat)])
    /\ UNCHANGED <<cfgVars, fileVars, sinkVars, callsLeft, ncalls, lastCall,
                   m_inHandler, opsLeft>>

\* The lock_guard of a log() called by the thread that holds m_mutex.
\* std::mutex::lock by the owner is undefined behaviour with two outcomes a
\* build produces: the call never returns (the thread stays at "h_lock",
\* no step of the model moves it), or it throws std::system_error
\* (resource_deadlock_would_occur), which is this action: the call is left
\* by the exception, back into the handler that made it.
h_lock_guard_owner(t) ==
    /\ AtPc(t, "h_lock")
    /\ m_mutex = t
    /\ stack' = [stack EXCEPT ![t] =
                    LET rest == SubSeq(stack[t], 1, Len(stack[t]) - 1)
                    IN [rest EXCEPT ![Len(rest)].threw = TRUE]]
    /\ UNCHANGED <<cfgVars, fileVars, sinkVars, callsLeft, ncalls, lastCall,
                   m_inHandler, m_mutex, opsLeft>>

\* "if (m_customHandler) m_customHandler(output); else { console; file }",
\* all of it with m_mutex held. "<< output << std::endl" puts the text and
\* the newline and flushes.
h_sinks(t) ==
    /\ AtPc(t, "h_locked")
    /\ IF m_customHandler # NoHandler
       THEN /\ handled' = Append(handled,
                   [h |-> m_customHandler, t |-> t, line |-> Top(t).out,
                    depth |-> Len(stack[t])])
            /\ stack' = SetTop(t, [Top(t) EXCEPT !.pc = "h_in_handler"])
            /\ UNCHANGED <<console, fileVars>>
       ELSE /\ console' = IF m_consoleOutput
                          THEN console \o <<TextTok(Top(t).out), NLTok>>
                          ELSE console
            /\ IF m_logFile.open
               THEN LET r == rotateLogIfNeeded(World)
                        x == StreamWrite(r, TextTok(Top(t).out))
                    IN SetWorld(StreamFlush(StreamWrite(x, NLTok)))
               ELSE UNCHANGED fileVars
            /\ stack' = SetTop(t, [Top(t) EXCEPT !.pc = "h_ret"])
            /\ UNCHANGED handled
    /\ UNCHANGED <<cfgVars, swallowed, callsLeft, ncalls, lastCall, m_inHandler,
                   m_mutex, opsLeft>>

\* The handler returns to log().
h_HandlerReturn(t) ==
    /\ AtPc(t, "h_in_handler")
    /\ stack' = SetTop(t, [Top(t) EXCEPT !.pc = "h_ret"])
    /\ UNCHANGED <<cfgVars, fileVars, sinkVars, callsLeft, ncalls, lastCall,
                   m_inHandler, m_mutex, opsLeft>>

\* The handler is left by an exception (its own, or the std::system_error
\* of a nested log() it did not catch): log() has no try/catch, the
\* exception goes on to the caller and the lock_guard releases m_mutex.
h_HandlerThrow(t) ==
    /\ AtPc(t, "h_in_handler")
    /\ m_mutex' = None
    /\ stack' = [stack EXCEPT ![t] = SubSeq(@, 1, Len(@) - 1)]
    /\ UNCHANGED <<cfgVars, fileVars, sinkVars, callsLeft, ncalls, lastCall,
                   m_inHandler, opsLeft>>

\* log() returns: the lock_guard releases m_mutex.
h_Return(t) ==
    /\ AtPc(t, "h_ret")
    /\ m_mutex' = None
    /\ stack' = [stack EXCEPT ![t] = SubSeq(@, 1, Len(@) - 1)]
    /\ UNCHANGED <<cfgVars, fileVars, sinkVars, callsLeft, ncalls, lastCall,
                   m_inHandler, opsLeft>>

\* Loggy.h setCustomLogHandler: under a lock_guard of its own
h_setCustomLogHandler(t, handler) ==
    /\ stack[t] = <<>>
    /\ opsLeft[t] > 0
    /\ m_mutex = None
    /\ opsLeft' = [opsLeft EXCEPT ![t] = @ - 1]
    /\ m_customHandler' = handler
    /\ lastCall' = [t |-> t, level |-> DEBUG, op |-> "setCustomLogHandler"]
    /\ UNCHANGED <<m_runtimeMinLvl, m_consoleOutput, m_fileOutput, m_autoFlush,
                   m_includeThreadId, m_timeFormat, fileVars, sinkVars, stack,
                   callsLeft, ncalls, m_inHandler, m_mutex>>

\* Two threads that log through the older Logger after setLogPath("p1"),
\* thread 1 also registering or clearing the handler between its calls; a
\* handler invocation may log.
InitOld ==
    /\ Configured(TRUE, NoHandler)
    /\ SinkOnP1
    /\ callsLeft = [t \in Threads |-> OldCalls]
    /\ opsLeft = [t \in Threads |-> IF t = 1 THEN OldOps ELSE 0]

NextOld ==
    \E t \in Threads :
        \/ \E level \in LevelInputs : h_log(t, level)
        \/ h_lock_guard(t)
        \/ h_lock_guard_owner(t)
        \/ h_sinks(t)
        \/ h_HandlerReturn(t)
        \/ h_HandlerThrow(t)
        \/ h_Return(t)
        \/ \E handler \in HandlerInputs : h_setCustomLogHandler(t, handler)

SpecOld == InitOld /\ [][NextOld]_vars

\* C21: in the Logger of src/Loggy.h no thread runs the handler while it
\* holds m_mutex, and so a log() called from the handler never arrives at
\* the lock_guard as the holder of the mutex it is about to lock: the
\* nested call can take the lock and return.
C21_HandlerOutsideLockInLoggyH ==
    \A t \in Threads :
        /\ AtPc(t, "h_in_handler") => m_mutex # t
        /\ AtPc(t, "h_lock") => m_mutex # t

\* Two threads that only log to the file, after enableConsoleOutput(false)
\* and setLogPath("p1"), long enough for the file to rotate.
InitOrd ==
    /\ Configured(FALSE, NoHandler)
    /\ SinkOnP1
    /\ callsLeft = [t \in Threads |-> OrdCalls]
    /\ opsLeft = [t \in Threads |-> 0]

\* (console output is off, so submit() never gets to the console's newline)
NextOrd ==
    \E t \in Threads :
        \/ LogCall(t, WARN)
        \/ Snapshot(t)
        \/ Dispatch(t)
        \/ ConsoleText(t)
        \/ FileLock(t)
        \/ FileText(t)
        \/ FileNL(t)
        \/ Return(t)

SpecOrd == InitOrd /\ [][NextOrd]_vars

\* the line texts in d that thread t submitted, in the order they stand in d
LinesOfThread(d, t) == SelectSeq(d, LAMBDA tok : ~tok.nl /\ tok.line.msg[1] = t)

\* the threads whose line texts stand in d, in order
Owners(d) ==
    LET texts == SelectSeq(d, LAMBDA tok : ~tok.nl)
    IN [i \in 1..Len(texts) |-> texts[i].line.msg[1]]

\* how many of its lines thread t has written to the file sink: all it
\* submitted, but for the one of a call that has not got to its write yet
WrittenBy(t) ==
    ncalls[t] - (IF stack[t] # <<>> /\ Top(t).pc \notin {"file_nl", "ret"}
                 THEN 1 ELSE 0)

\* C22 (SpecOrd): while the sink is open and no backup has been evicted (at
\* most LOGGY_ROTATE_BACKUPS rotations), the lines of each thread stand in
\* the file sink, read from path.N down to path.1 and then the active file,
\* in the order the thread submitted them: the i-th of its lines there is
\* the line of its i-th call, whatever the other thread wrote in between.
C22_ThreadOrderInFile ==
    (m_logFile.open /\ rotations <= N) =>
        \A t \in Threads :
            LET mine == LinesOfThread(AllFileData("p1"), t)
            IN /\ Len(mine) = WrittenBy(t)
               /\ \A i \in 1..Len(mine) : mine[i].line.msg = <<t, i>>

\* both threads are done after two rotations: the oldest backup holds a
\* line of thread 2 between two lines of thread 1, and thread 1 wrote the
\* line that is in the active file
C22_Witness ==
    /\ m_logFile.open
    /\ rotations = 2
    /\ \A t \in Threads : stack[t] = <<>>
    /\ Owners(fs[Backup("p1", 2)].data) = <<1, 2, 1>>
    /\ fs[Backup("p1", 1)].ex
    /\ Owners(fs[Active("p1")].data) = <<1>>

====
